---- MODULE Spec2Model ----
(***************************************************************************)
(* Multi-provider web search: the provider resolver (selectSearchProvider), *)
(* the failover orchestrator (search) and the retry loops of the brave and  *)
(* duckduckgo adapters.                                                     *)
(*                                                                          *)
(* Every search call is an async function: it runs in atomic segments that  *)
(* end at an `await` or at the settling of a promise.  One action of the    *)
(* model is one such segment of one call; the calls in Calls interleave at  *)
(* these points only.                                                       *)
(***************************************************************************)
EXTENDS Integers, Sequences, FiniteSets, TLC

VARIABLES
    env,                \* process.env: the alternatives whose setting is truthy
    googleFailCount,    \* let googleFailCount
    lastGoogleFailure,  \* let lastGoogleFailure
    lastProvider,       \* let lastProvider
    now,                \* Date.now(), in ms since the process started
    calls               \* per search call: its position, locals and what it has done

vars == <<env, googleFailCount, lastGoogleFailure, lastProvider, now, calls>>

----------------------------------------------------------------------------
(* Program constants *)

MAX_GOOGLE_FAILURES == 5
GOOGLE_FAILURE_RESET_TIME == 30 * 60 * 1000
maxRetries == 3
baseRetryDelay == 1000

(* Bounds of the model *)

NumCalls == 2          \* slots for search calls
MaxJitter == 1         \* ms past the end of a reset period the clock is read at
MaxItems == 1          \* entries per section of a duckduckgo response
MaxWebResults == 2     \* entries of web.results in a brave response
MaxNum == 1            \* largest num_results a caller of search passes
MaxDirectItems == 2    \* entries per section of a response to a direct call
MaxDirectNum == 3      \* largest num_results passed to an adapter called directly

Calls == 1 .. NumCalls

\* The calls of the specification in which the caller awaits each search
\* before it makes the next one.
SeqCalls == {1}

Alternatives == {"serper", "searchapi", "searxng", "brave", "duckduckgo"}

\* The order of the if-chains of selectSearchProvider.
SelectOrder == <<"serper", "searchapi", "searxng", "brave", "duckduckgo">>
\* The order of the if-chain of the catch block of search.
FallbackOrder == <<"brave", "duckduckgo", "serper", "searchapi", "searxng">>

\* The instants at which the clock is read: the start of the process, and
\* the end of one reset period and the milliseconds after it.
Instants ==
    {0} \cup {GOOGLE_FAILURE_RESET_TIME + j : j \in 0 .. MaxJitter}

----------------------------------------------------------------------------
(* Strings are sequences of words; String.prototype.includes is a search    *)
(* for a contiguous run of words.                                           *)

TooManyRequests == <<"Too", "many", "requests">>

Includes(msg, pat) ==
    \E i \in 0 .. (Len(msg) - Len(pat)) :
        \A j \in 1 .. Len(pat) : msg[i + j] = pat[j]

\* Mutant: any error that has a message counts as a rate limit.
IsRateLimitMessageAny(msg) == msg # <<>>

\* error.message && error.message.includes("Too many requests")
IsRateLimitMessage(msg) == msg # <<>> /\ Includes(msg, TooManyRequests)

----------------------------------------------------------------------------
(* selectSearchProvider *)

\* Mutant: the cooldown compares with >= instead of >.
CooldownAtLeast(cnt, last, t) ==
    IF cnt > 0 /\ (t - last) >= GOOGLE_FAILURE_RESET_TIME THEN 0 ELSE cnt

\* if (googleFailCount > 0 && (Date.now() - lastGoogleFailure) > RESET_TIME)
Cooldown(cnt, last, t) ==
    IF cnt > 0 /\ (t - last) > GOOGLE_FAILURE_RESET_TIME THEN 0 ELSE cnt

\* An if-chain `if (hasX) ...` over `order`: the first provider of `order`
\* that is configured in e, "none" when the chain falls through.
RECURSIVE FirstConfigured(_, _)
FirstConfigured(order, e) ==
    IF order = <<>> THEN "none"
    ELSE IF Head(order) \in e THEN Head(order)
    ELSE FirstConfigured(Tail(order), e)

\* Mutant: without alternatives the count is kept and google returned.
AtThresholdNoReset(cnt, e) ==
    IF FirstConfigured(SelectOrder, e) # "none"
    THEN [provider |-> FirstConfigured(SelectOrder, e), failCount |-> cnt,
          reset |-> "none"]
    ELSE [provider |-> "google", failCount |-> cnt, reset |-> "none"]

\* Mutant: the count is reset whichever provider is returned.
AtThresholdAlwaysResets(cnt, e) ==
    IF FirstConfigured(SelectOrder, e) # "none"
    THEN [provider |-> FirstConfigured(SelectOrder, e), failCount |-> 0,
          reset |-> "threshold"]
    ELSE [provider |-> "google", failCount |-> 0, reset |-> "threshold"]

\* if (googleFailCount >= MAX_GOOGLE_FAILURES) { ... }
\* reset: the reset of googleFailCount that the call logged, if any.
AtThreshold(cnt, e) ==
    IF FirstConfigured(SelectOrder, e) # "none"
    THEN [provider |-> FirstConfigured(SelectOrder, e), failCount |-> cnt,
          reset |-> "none"]
    ELSE [provider |-> "google", failCount |-> 0, reset |-> "threshold"]

\* Mutant: a primary that has not failed is preferred to the alternatives.
BelowThresholdPrimaryFirst(cnt, e) ==
    IF cnt > 0 /\ FirstConfigured(SelectOrder, e) # "none"
    THEN [provider |-> FirstConfigured(SelectOrder, e), failCount |-> cnt,
          reset |-> "none"]
    ELSE [provider |-> "google", failCount |-> cnt, reset |-> "none"]

\* The chain after the threshold block, and the final `return "google"`.
BelowThreshold(cnt, e) ==
    IF FirstConfigured(SelectOrder, e) # "none"
    THEN [provider |-> FirstConfigured(SelectOrder, e), failCount |-> cnt,
          reset |-> "none"]
    ELSE [provider |-> "google", failCount |-> cnt, reset |-> "none"]

\* The provider returned, the value googleFailCount is left with and the
\* reset logged.
selectSearchProvider(cnt, last, t, e) ==
    LET cooled == Cooldown(cnt, last, t)
        chosen == IF cooled >= MAX_GOOGLE_FAILURES
                  THEN AtThreshold(cooled, e)
                  ELSE BelowThreshold(cooled, e)
    IN  IF cooled # cnt THEN [chosen EXCEPT !.reset = "cooldown"] ELSE chosen

----------------------------------------------------------------------------
(* Results and backend responses *)

Min(a, b) == IF a < b THEN a ELSE b

\* new SearchResult(url, title, description) built from entry idx of section src
SearchResult(src, idx) == [src |-> src, idx |-> idx]

Items(src, n) == [i \in 1 .. n |-> SearchResult(src, i)]

NoOutcome == [kind |-> "none", items |-> <<>>, msg |-> <<>>]
Resolved(items) == [kind |-> "ok", items |-> items, msg |-> <<>>]
Rejected(msg) == [kind |-> "err", items |-> <<>>, msg |-> msg]

\* What an HTTP exchange ends with: 0 stands for no response at all
\* (timeout, network error: error.response is undefined).
Statuses == {200, 429, 503, 500, 0}

StatusWord(status) ==
    CASE status = 429 -> "429"
      [] status = 503 -> "503"
      [] status = 500 -> "500"
      [] OTHER -> "0"

\* error.message of the error axios rejects with
AxiosMessage(status) ==
    IF status = 0 THEN <<"timeout", "exceeded">>
    ELSE <<"Request", "failed", "with", "status", "code", StatusWord(status)>>

\* No response has arrived.
NoData == [none |-> TRUE]

\* response.data of the brave backend: web.results has n entries
BraveData == [n : 0 .. MaxWebResults]

TopicKinds == {"category", "nourl", "plain"}

SeqsUpTo(S, n) == UNION {[1 .. k -> S] : k \in 0 .. n}

\* response.data of the duckduckgo backend, with up to n entries per section
DdgDataUpTo(n) ==
    [AbstractURL : BOOLEAN, AbstractText : BOOLEAN,
     Results : 0 .. n, RelatedTopics : SeqsUpTo(TopicKinds, n)]

DdgData == DdgDataUpTo(MaxItems)

\* if (!response.data.web?.results?.length) return []; else results.map(...)
BraveResults(data) ==
    IF data.n = 0 THEN <<>> ELSE Items("web", data.n)

\* response.data.Results.forEach(result => if (results.length < num) push)
RECURSIVE PushResults(_, _, _, _)
PushResults(results, i, n, num) ==
    IF i > n THEN results
    ELSE PushResults(
            IF Len(results) < num
            THEN Append(results, SearchResult("result", i)) ELSE results,
            i + 1, n, num)

\* Mutant: category topics are not skipped.
RECURSIVE PushTopicsKeepCategories(_, _, _, _)
PushTopicsKeepCategories(results, j, topics, num) ==
    IF j > Len(topics) THEN results
    ELSE PushTopicsKeepCategories(
            IF Len(results) < num /\ topics[j] # "nourl"
            THEN Append(results, SearchResult("topic", j)) ELSE results,
            j + 1, topics, num)

\* response.data.RelatedTopics.forEach(topic => ...)
RECURSIVE PushTopics(_, _, _, _)
PushTopics(results, j, topics, num) ==
    IF j > Len(topics) THEN results
    ELSE PushTopics(
            IF topics[j] = "category" THEN results
            ELSE IF Len(results) < num /\ topics[j] # "nourl"
            THEN Append(results, SearchResult("topic", j)) ELSE results,
            j + 1, topics, num)

\* The body of the try block of duckduckgoSearch after the response arrived.
DdgResults(data, num) ==
    LET r0 == IF data.AbstractURL /\ data.AbstractText
              THEN <<SearchResult("abstract", 0)>> ELSE <<>>
        r1 == PushResults(r0, 1, data.Results, num)
        r2 == PushTopics(r1, 1, data.RelatedTopics, num)
    IN  SubSeq(r2, 1, Min(num, Len(r2)))

\* Mutant: the delay grows linearly.
BackoffDelayLinear(retryCount) == baseRetryDelay * (retryCount + 1)

\* const delay = baseRetryDelay * Math.pow(2, retryCount)
BackoffDelay(retryCount) == baseRetryDelay * (2 ^ retryCount)

\* error.response?.status === 429 || error.response?.status === 503
IsRetryableStatus(status) == status = 429 \/ status = 503

\* Mutant: the retry test lets retryCount reach maxRetries.
ShouldRetryInclusive(status, retryCount) ==
    IsRetryableStatus(status) /\ retryCount <= maxRetries

\* ... and if (retryCount < maxRetries)
ShouldRetry(status, retryCount) ==
    IsRetryableStatus(status) /\ retryCount < maxRetries

\* throw new Error(`Brave Search API error: ${error.message}`) and its twin
AdapterError(adapter, msg) ==
    IF adapter = "brave" THEN <<"Brave", "Search", "API", "error:">> \o msg
    ELSE <<"DuckDuckGo", "search", "error:">> \o msg

BraveKeyError == <<"Brave", "Search", "API", "key", "not", "configured">>

\* The adapters whose code is in other files: they answer with a list or
\* reject with an error that carries one of these messages.
ExternalAdapters == {"google", "serper", "searchapi", "searxng"}
ExternalMessages ==
    { <<"Error:", "Too", "many", "requests">>,
      <<"too", "many", "requests">>,
      <<"Request", "timed", "out">>,
      <<>> }

ExternalOutcomes(adapter) ==
    {Resolved(Items(adapter, n)) : n \in 0 .. MaxItems}
        \cup {Rejected(m) : m \in ExternalMessages}

----------------------------------------------------------------------------
(* One search call *)

\* pc: "idle"     not started
\*     "ext"      awaiting googleSearch / serper_search / searchapi_search /
\*                searxng_search
\*     "http"     the brave or duckduckgo adapter awaits axios
\*     "backoff"  the brave or duckduckgo adapter awaits wait(delay)
\*     "settled"  the promise of the brave or duckduckgo adapter has settled
\*                and search, which awaits it, has not resumed yet
\*     "done"     search has returned (or thrown) to its caller
\* The fields below `adapter` record what the call did; they start afresh
\* with the slot's next call.
IdleCall ==
    [pc |-> "idle",
     num |-> 0,                \* num_results
     provider |-> "none",      \* const provider
     reset |-> "none",         \* the reset selectSearchProvider logged
     adapter |-> "none",       \* the adapter invoked last
     retryCount |-> 0,         \* let retryCount
     attempts |-> 0,           \* axios requests issued by the adapter
     throttled |-> 0,          \* 429/503 answers the adapter received
     delays |-> <<>>,          \* the delays passed to wait, in order
     altsSeen |-> 0,           \* alternatives configured when google was caught
     altsTried |-> 0,          \* alternatives invoked by the google catch block
     data |-> NoData,          \* response.data of the axios request that resolved
     outcome |-> NoOutcome,    \* what the promise awaited last settled with
     ret |-> <<>>,             \* the list search returned
     failed |-> FALSE,         \* the outer catch block ran
     raised |-> FALSE,         \* search rejected instead of returning
     errlog |-> "none"]        \* provider named by logger.error in the catch

\* What a call that has returned keeps of what it saw on its way: the
\* configuration it read and the response its adapter parsed are of no use
\* once the call is over.
Finished(call) ==
    [call EXCEPT !.pc = "done", !.reset = "none", !.altsSeen = 0,
                 !.data = NoData]

\* return await <adapter>(...) with a fulfilled promise
ReturnResults(call, o) ==
    [Finished(call) EXCEPT !.outcome = o, !.ret = o.items]

\* Mutant: the outer catch logs and throws the error again.
OuterCatchRethrows(call, o, lp) ==
    [Finished(call) EXCEPT !.outcome = o, !.failed = TRUE, !.raised = TRUE,
                           !.errlog = lp]

\* } catch (error) { logger.error(`... provider ${lastProvider}`); return []; }
OuterCatch(call, o, lp) ==
    [Finished(call) EXCEPT !.outcome = o, !.ret = <<>>, !.failed = TRUE,
                           !.errlog = lp]

\* if (!BRAVE_SEARCH_API_KEY) at the top of braveSearch
BraveKeyMissing(a, e) == a = "brave" /\ "brave" \notin e

\* let retryCount = 0; and the first pass of the loop up to `await axios`
AwaitAxios(call, a) ==
    [call EXCEPT !.pc = "http", !.adapter = a, !.retryCount = 0, !.attempts = 1]

\* Calling adapter a: its synchronous part, up to its first await.  braveSearch
\* throws before any await when its key is missing, and the error reaches the
\* outer catch of search.
InvokeAdapter(call, a, e, lp) ==
    IF a \in ExternalAdapters
    THEN [call EXCEPT !.pc = "ext", !.adapter = a]
    ELSE IF BraveKeyMissing(a, e)
    THEN OuterCatch([call EXCEPT !.adapter = a], Rejected(BraveKeyError), lp)
    ELSE AwaitAxios(call, a)

\* Mutant: the fallback chain ends after its first two entries.
FallbackAdapterShort(e) == FirstConfigured(<<"brave", "duckduckgo">>, e)

\* Mutant: duckduckgo, which needs no key, ends the chain unconditionally.
FallbackAdapterKeylessLast(e) ==
    IF FirstConfigured(FallbackOrder, e) # "none"
    THEN FirstConfigured(FallbackOrder, e) ELSE "duckduckgo"

\* The fallback if-chain of the catch block around googleSearch.
FallbackAdapter(e) == FirstConfigured(FallbackOrder, e)

\* Mutant: the failure is counted and its time is not recorded.
GoogleCatchNoTimestamp(call, o, cnt, last, t, e, lp) ==
    IF IsRateLimitMessage(o.msg)
    THEN [failCount |-> cnt + 1,
          lastFailure |-> last,
          call |-> IF FallbackAdapter(e) # "none"
                   THEN InvokeAdapter([call EXCEPT !.outcome = o,
                                                   !.altsTried = 1,
                                                   !.altsSeen = Cardinality(e)],
                                      FallbackAdapter(e), e, lp)
                   ELSE OuterCatch(call, o, lp)]
    ELSE [failCount |-> cnt, lastFailure |-> last,
          call |-> OuterCatch(call, o, lp)]

\* The catch block around googleSearch: the call, googleFailCount and
\* lastGoogleFailure it leaves.
GoogleCatch(call, o, cnt, last, t, e, lp) ==
    IF IsRateLimitMessage(o.msg)
    THEN [failCount |-> cnt + 1,
          lastFailure |-> t,
          call |-> IF FallbackAdapter(e) # "none"
                   THEN InvokeAdapter([call EXCEPT !.outcome = o,
                                                   !.altsTried = 1,
                                                   !.altsSeen = Cardinality(e)],
                                      FallbackAdapter(e), e, lp)
                   ELSE OuterCatch(call, o, lp)]
    ELSE [failCount |-> cnt, lastFailure |-> last,
          call |-> OuterCatch(call, o, lp)]

\* Mutant: a primary search that succeeds clears the count of failures.
ResumeResetsOnSuccess(call, o, cnt, last, t, e, lp) ==
    IF o.kind = "ok"
    THEN [failCount |-> IF call.adapter = "google" THEN 0 ELSE cnt,
          lastFailure |-> last,
          call |-> ReturnResults(call, o)]
    ELSE IF call.adapter = "google" /\ call.altsTried = 0
    THEN GoogleCatch(call, o, cnt, last, t, e, lp)
    ELSE [failCount |-> cnt, lastFailure |-> last,
          call |-> OuterCatch(call, o, lp)]

\* search resumes after the await of an adapter whose promise settled with o.
Resume(call, o, cnt, last, t, e, lp) ==
    IF o.kind = "ok"
    THEN [failCount |-> cnt, lastFailure |-> last,
          call |-> ReturnResults(call, o)]
    ELSE IF call.adapter = "google" /\ call.altsTried = 0
    THEN GoogleCatch(call, o, cnt, last, t, e, lp)
    ELSE [failCount |-> cnt, lastFailure |-> last,
          call |-> OuterCatch(call, o, lp)]

\* The adapters of these files are exported: a caller other than search may
\* call them.  Such a call has no provider resolved by search.
DirectAdapters == {"brave", "duckduckgo"}

\* Mutant: a missing key is only logged, and the request is made without it.
InvokeDirectKeyWarnOnly(call, a, e) == AwaitAxios(call, a)

\* braveSearch(query, {num_results}) / duckduckgoSearch(query, {num_results})
\* called directly, up to the first await or to the throw.
InvokeDirect(call, a, e) ==
    IF BraveKeyMissing(a, e)
    THEN [call EXCEPT !.pc = "done", !.adapter = a,
                      !.outcome = Rejected(BraveKeyError)]
    ELSE AwaitAxios(call, a)

\* The promise of an adapter called directly settles with o; the caller keeps
\* the response it was built from.
DirectReturn(call, o) ==
    [call EXCEPT !.pc = "done", !.outcome = o, !.ret = o.items]

\* The promise of an adapter called by search settles with o: the adapter is
\* over and its response is dropped; search resumes in a later job.
Settled(call, o) ==
    [call EXCEPT !.pc = "settled", !.outcome = o, !.data = NoData]

----------------------------------------------------------------------------
(* The state machine.  The last segment of braveSearch / duckduckgoSearch,   *)
(* which settles the adapter's promise, and the segment of search that the  *)
(* settled promise resumes are two actions: other jobs run in between.      *)

Init ==
    /\ env \in SUBSET Alternatives
    /\ googleFailCount = 0
    /\ lastGoogleFailure = 0
    /\ lastProvider = ""
    /\ now = 0
    /\ calls = [c \in Calls |-> IdleCall]

\* The last segment of the adapter of call c: its promise settles with o.
AdapterSettles(c, call, o) ==
    /\ calls' = [calls EXCEPT ![c] =
           IF call.provider = "direct"
           THEN DirectReturn(call, o) ELSE Settled(call, o)]
    /\ UNCHANGED <<env, googleFailCount, lastGoogleFailure, lastProvider, now>>

\* search of call c resumes with its adapter's promise settled with o.
Settle(c, call, o) ==
    LET r == Resume(call, o, googleFailCount, lastGoogleFailure, now, env,
                    lastProvider)
    IN  /\ googleFailCount' = r.failCount
        /\ lastGoogleFailure' = r.lastFailure
        /\ calls' = [calls EXCEPT ![c] = r.call]
        /\ UNCHANGED <<env, lastProvider, now>>

\* search({query, num_results: num, ...}) up to its first await
StartSearch(c, num) ==
    /\ calls[c].pc \in {"idle", "done"}
    /\ LET sel == selectSearchProvider(googleFailCount, lastGoogleFailure, now, env)
       IN  /\ googleFailCount' = sel.failCount
           /\ lastProvider' = sel.provider
           /\ calls' = [calls EXCEPT ![c] =
                  InvokeAdapter([IdleCall EXCEPT !.num = num,
                                                 !.provider = sel.provider,
                                                 !.reset = sel.reset],
                                sel.provider, env, sel.provider)]
    /\ UNCHANGED <<env, lastGoogleFailure, now>>

\* A caller other than search calls adapter a with num_results = num.
CallAdapter(c, a, num) ==
    /\ calls[c].pc \in {"idle", "done"}
    /\ calls' = [calls EXCEPT ![c] =
           InvokeDirect([IdleCall EXCEPT !.num = num, !.provider = "direct"],
                        a, env)]
    /\ UNCHANGED <<env, googleFailCount, lastGoogleFailure, lastProvider, now>>

\* search resumes from the await of an adapter of another file, whose
\* promise has settled with o.
ExternalRespond(c, o) ==
    /\ calls[c].pc = "ext"
    /\ o \in ExternalOutcomes(calls[c].adapter)
    /\ Settle(c, calls[c], o)

\* axios resolves with a response whose data is in brave / ddg: the rest of
\* the try block of braveSearch / duckduckgoSearch, up to its return.
HttpResolve(c, brave, ddg) ==
    /\ calls[c].pc = "http"
    /\ IF calls[c].adapter = "brave"
       THEN \E data \in brave :
               AdapterSettles(c, [calls[c] EXCEPT !.data = data],
                              Resolved(BraveResults(data)))
       ELSE \E data \in ddg :
               AdapterSettles(c, [calls[c] EXCEPT !.data = data],
                              Resolved(DdgResults(data, calls[c].num)))

\* ... in a search call
HttpOk(c) == HttpResolve(c, BraveData, DdgData)

\* ... in a direct call
HttpOkDirect(c) == HttpResolve(c, BraveData, DdgDataUpTo(MaxDirectItems))

\* axios rejects: the catch block of braveSearch / duckduckgoSearch, up to
\* wait(delay) or to the throw.
HttpError(c, status) ==
    /\ calls[c].pc = "http"
    /\ status # 200
    /\ LET call == calls[c]
           got == [call EXCEPT !.throttled =
                      IF IsRetryableStatus(status) THEN @ + 1 ELSE @]
       IN  IF ShouldRetry(status, call.retryCount)
           THEN /\ calls' = [calls EXCEPT ![c] =
                       [got EXCEPT !.pc = "backoff",
                            !.delays = Append(@, BackoffDelay(call.retryCount))]]
                /\ UNCHANGED <<env, googleFailCount, lastGoogleFailure,
                               lastProvider, now>>
           ELSE AdapterSettles(c, got,
                               Rejected(AdapterError(call.adapter,
                                                     AxiosMessage(status))))

\* search resumes from `return await braveSearch(...)` /
\* `return await duckduckgoSearch(...)`, the adapter's promise having settled.
SearchResume(c) ==
    /\ calls[c].pc = "settled"
    /\ Settle(c, calls[c], calls[c].outcome)

\* Mutant: the promise of wait never resolves.
TimerFireNeverResolves(c) ==
    /\ calls[c].pc = "backoff"
    /\ FALSE
    /\ UNCHANGED vars

\* wait(delay) resolves: retryCount++; continue; and the next axios request
TimerFire(c) ==
    /\ calls[c].pc = "backoff"
    /\ calls' = [calls EXCEPT ![c].pc = "http",
                              ![c].retryCount = @ + 1,
                              ![c].attempts = @ + 1]
    /\ UNCHANGED <<env, googleFailCount, lastGoogleFailure, lastProvider, now>>

\* Time passes.
Tick(t) ==
    /\ t > now
    /\ now' = t
    /\ UNCHANGED <<env, googleFailCount, lastGoogleFailure, lastProvider, calls>>

\* The operator sets or clears the setting of one alternative.
SetEnv(p) ==
    /\ env' = IF p \in env THEN env \ {p} ELSE env \cup {p}
    /\ UNCHANGED <<googleFailCount, lastGoogleFailure, lastProvider, now, calls>>

\* One segment of call c.
CallStep(c) ==
    \/ \E num \in 1 .. MaxNum : StartSearch(c, num)
    \/ \E o \in UNION {ExternalOutcomes(a) : a \in ExternalAdapters} :
          ExternalRespond(c, o)
    \/ HttpOk(c)
    \/ \E status \in Statuses : HttpError(c, status)
    \/ TimerFire(c)
    \/ SearchResume(c)

\* What happens around the calls.
EnvStep ==
    \/ \E t \in Instants : Tick(t)
    \/ \E p \in Alternatives : SetEnv(p)

\* Searches made one after the other.
Next ==
    \/ \E c \in SeqCalls : CallStep(c)
    \/ EnvStep

Spec == Init /\ [][Next]_vars

\* The brave and duckduckgo adapters called directly, one call after the
\* other, while the operator sets and clears the brave key.
AdapterStep(c) ==
    \/ \E a \in DirectAdapters, num \in 0 .. MaxDirectNum : CallAdapter(c, a, num)
    \/ HttpOkDirect(c)
    \/ \E status \in Statuses : HttpError(c, status)
    \/ TimerFire(c)

NextAdapters ==
    \/ \E c \in SeqCalls : AdapterStep(c)
    \/ SetEnv("brave")

AdapterSpec == Init /\ [][NextAdapters]_vars

\* Searches made one after the other while the operator sets and clears the
\* settings of the two adapters that retry; every request is answered or
\* times out, every timer fires and every queued continuation runs.
InitLive ==
    /\ env \in SUBSET DirectAdapters
    /\ googleFailCount = 0
    /\ lastGoogleFailure = 0
    /\ lastProvider = ""
    /\ now = 0
    /\ calls = [c \in Calls |-> IdleCall]

NextLive ==
    \/ \E c \in SeqCalls : CallStep(c)
    \/ \E p \in DirectAdapters : SetEnv(p)

Answers(c) ==
    \/ \E o \in UNION {ExternalOutcomes(a) : a \in ExternalAdapters} :
          ExternalRespond(c, o)
    \/ HttpOk(c)
    \/ \E status \in Statuses : HttpError(c, status)

LiveSpec ==
    /\ InitLive /\ [][NextLive]_vars
    /\ \A c \in SeqCalls :
          WF_vars(Answers(c)) /\ WF_vars(TimerFire(c)) /\ WF_vars(SearchResume(c))

\* Concurrent searches: every call of Calls may be in flight at once, and
\* their segments interleave.  The operator sets and clears the serper key,
\* so that the primary and one alternative are both resolved and both serve
\* as fallback.
InitConcurrent ==
    /\ env \in SUBSET {"serper"}
    /\ googleFailCount = 0
    /\ lastGoogleFailure = 0
    /\ lastProvider = ""
    /\ now = 0
    /\ calls = [c \in Calls |-> IdleCall]

\* What the adapters answer the concurrent calls with: one entry, a
\* rate-limit error, or another error.
ConcurrentOutcomes(a) ==
    {Resolved(Items(a, 1)),
     Rejected(<<"Error:", "Too", "many", "requests">>),
     Rejected(<<"Request", "timed", "out">>)}

ConcurrentStep(c) ==
    \/ StartSearch(c, 1)
    \/ \E o \in ConcurrentOutcomes(calls[c].adapter) : ExternalRespond(c, o)

NextConcurrent ==
    \/ \E c \in Calls : ConcurrentStep(c)
    \/ \E t \in Instants : Tick(t)
    \/ SetEnv("serper")

ConcurrentSpec == InitConcurrent /\ [][NextConcurrent]_vars

----------------------------------------------------------------------------
(* Properties *)

InFlight(c) == calls[c].pc \in {"ext", "http", "backoff", "settled"}

\* In this step search of call c resumes from the await of an adapter.
Resumes(c) == calls[c].pc \in {"ext", "settled"} /\ calls'[c] # calls[c]

\* This step is the first segment of a call in slot c: selectSearchProvider
\* has run.
Starts(c) == calls[c].pc \in {"idle", "done"} /\ calls'[c] # calls[c]

\* In this step search of call c resumes with the rejection of the adapter
\* of the provider resolved for it.
PrimaryRejects(c) ==
    /\ Resumes(c) /\ calls[c].altsTried = 0
    /\ calls'[c].outcome.kind = "err"

\* ... with a message containing "Too many requests", the provider being
\* the primary.
PrimaryRateLimited(c) ==
    /\ PrimaryRejects(c)
    /\ calls[c].adapter = "google"
    /\ Includes(calls'[c].outcome.msg, TooManyRequests)

\* In this step search of call c resumes with the alternative invoked by
\* its fallback settled.
FallbackSettles(c) ==
    /\ Resumes(c) /\ calls[c].altsTried = 1
    /\ calls'[c].pc = "done"

\* The first configured alternative in the order serper, searchapi, searxng,
\* brave, duckduckgo.
HighestPriority(e) ==
    IF "serper" \in e THEN "serper"
    ELSE IF "searchapi" \in e THEN "searchapi"
    ELSE IF "searxng" \in e THEN "searxng"
    ELSE IF "brave" \in e THEN "brave"
    ELSE "duckduckgo"

\* C1: a search call that has ended has returned a list and has not raised,
\* and the list is empty when the adapter it awaited last rejected, whatever
\* the adapter (resolved or fallback) and the error.
C1_NeverRaises ==
    \A c \in Calls :
        calls[c].pc = "done" =>
            /\ ~calls[c].raised
            /\ calls[c].outcome.kind \in {"ok", "err"}
            /\ calls[c].outcome.kind = "err" => calls[c].ret = <<>>

\* The adapter invoked by the fallback exhausted its retries and search
\* returned an empty list.
C1_Witness ==
    \E c \in Calls :
        /\ calls[c].pc = "done" /\ calls[c].outcome.kind = "err"
        /\ calls[c].provider = "google" /\ calls[c].altsTried = 1
        /\ calls[c].adapter = "duckduckgo" /\ calls[c].throttled = 4
        /\ calls[c].ret = <<>> /\ ~calls[c].raised

\* C2 (as claimed): after a primary rate-limit failure, search returns an
\* empty list because an alternative failed only when every alternative that
\* was configured at the primary's failure has been invoked.
C2_WalksAllAlternatives ==
    [][\A c \in Calls :
          (FallbackSettles(c) /\ calls'[c].outcome.kind = "err"
              /\ calls'[c].ret = <<>>)
          => calls[c].altsTried >= calls[c].altsSeen]_vars

\* C3 (as claimed): the first alternative invoked by the fallback is the one
\* selectSearchProvider returns for the same configuration.
C3_FallbackFollowsSelectOrder ==
    [][\A c \in Calls :
          (calls[c].altsTried = 0 /\ calls'[c].altsTried = 1) =>
              calls'[c].adapter =
                  selectSearchProvider(googleFailCount', lastGoogleFailure',
                                       now, env).provider]_vars

\* C4: when the primary rejects with a message containing "Too many requests"
\* while exactly one alternative is configured, googleFailCount grows by one
\* and that alternative is invoked; when the alternative invoked by the
\* fallback fulfils, search returns its list.
C4_SingleAlternativeFallback ==
    [][\A c \in Calls :
          /\ (PrimaryRateLimited(c) /\ Cardinality(env) = 1) =>
                /\ googleFailCount' = googleFailCount + 1
                /\ calls'[c].altsTried = 1
                /\ calls'[c].adapter \in env
                /\ InFlight(c)'
          /\ (FallbackSettles(c) /\ calls'[c].outcome.kind = "ok") =>
                /\ calls'[c].ret = calls'[c].outcome.items
                /\ ~calls'[c].failed /\ ~calls'[c].raised]_vars

\* The only configured alternative served the call after the primary failed.
C4_Witness ==
    \E c \in Calls :
        /\ calls[c].pc = "done" /\ calls[c].outcome.kind = "ok"
        /\ calls[c].provider = "google" /\ calls[c].altsTried = 1
        /\ env = {"searxng"} /\ calls[c].adapter = "searxng"
        /\ calls[c].ret = Items("searxng", 1)
        /\ googleFailCount = 1

\* C5: when the adapter of the resolved provider rejects and it is not the
\* primary rejecting with a message containing "Too many requests", search
\* returns an empty list in that step: no other adapter is invoked and the
\* failure tracker is left as it was.
C5_NoFallbackOtherwise ==
    [][\A c \in Calls :
          (PrimaryRejects(c) /\ ~PrimaryRateLimited(c)) =>
                /\ calls'[c].pc = "done"
                /\ calls'[c].ret = <<>>
                /\ calls'[c].altsTried = 0
                /\ calls'[c].adapter = calls[c].adapter
                /\ googleFailCount' = googleFailCount
                /\ lastGoogleFailure' = lastGoogleFailure]_vars

\* The primary rejected with a message other than the rate-limit one while
\* alternatives were configured, and the call ended with an empty list, no
\* alternative tried and the tracker untouched.
C5_Witness ==
    \E c \in Calls :
        /\ calls[c].pc = "done" /\ calls[c].ret = <<>>
        /\ calls[c].provider = "google" /\ calls[c].adapter = "google"
        /\ calls[c].outcome = Rejected(<<"too", "many", "requests">>)
        /\ calls[c].altsTried = 0
        /\ env = {"brave", "serper"}
        /\ googleFailCount = 0

\* C6: when selectSearchProvider runs with no alternative configured it
\* returns google, whatever googleFailCount and the time since the last
\* failure are, and leaves googleFailCount at 0 if it was at or above
\* MAX_GOOGLE_FAILURES.
C6_PrimaryWithoutAlternatives ==
    [][\A c \in Calls :
          (Starts(c) /\ env = {}) =>
              /\ calls'[c].provider = "google"
              /\ lastProvider' = "google"
              /\ googleFailCount >= MAX_GOOGLE_FAILURES => googleFailCount' = 0]_vars

\* selectSearchProvider found the count at the threshold and no alternative:
\* it reset the count and returned google.
C6_Witness ==
    \E c \in Calls :
        /\ InFlight(c) /\ calls[c].provider = "google"
        /\ calls[c].reset = "threshold"
        /\ env = {} /\ googleFailCount = 0
        /\ now - lastGoogleFailure <= GOOGLE_FAILURE_RESET_TIME

\* C7: when selectSearchProvider runs with an alternative configured it
\* returns the first configured one in the order serper, searchapi, searxng,
\* brave, duckduckgo, never google, whatever googleFailCount is.
C7_AlternativesFirst ==
    [][\A c \in Calls :
          (Starts(c) /\ env # {}) =>
              /\ calls'[c].provider = HighestPriority(env)
              /\ calls'[c].provider # "google"
              /\ lastProvider' = calls'[c].provider]_vars

\* With the primary never having failed, the fourth alternative of the order
\* was chosen over google and over the fifth.
C7_Witness ==
    \E c \in Calls :
        /\ InFlight(c) /\ calls[c].provider = "brave"
        /\ calls[c].altsTried = 0
        /\ env = {"brave", "duckduckgo"}
        /\ googleFailCount = 0 /\ lastGoogleFailure = 0

\* C8 (as claimed): selectSearchProvider called with googleFailCount at
\* MAX_GOOGLE_FAILURES and an alternative configured returns the first
\* configured alternative and leaves googleFailCount as it is.
C8_CountKeptAtThreshold ==
    [][\A c \in Calls :
          (Starts(c) /\ googleFailCount = MAX_GOOGLE_FAILURES /\ env # {}) =>
              /\ calls'[c].provider = HighestPriority(env)
              /\ googleFailCount' = googleFailCount]_vars

\* C8 (amended): ... returns the first configured alternative; it leaves
\* googleFailCount as it is when no more than the reset time has passed
\* since the last failure, and at 0 otherwise.
C8_AlternativeAtThreshold ==
    [][\A c \in Calls :
          (Starts(c) /\ googleFailCount = MAX_GOOGLE_FAILURES /\ env # {}) =>
              /\ calls'[c].provider = HighestPriority(env)
              /\ googleFailCount' =
                    IF now - lastGoogleFailure > GOOGLE_FAILURE_RESET_TIME
                    THEN 0 ELSE googleFailCount]_vars

\* After five rate-limit failures in a row the next call went to an
\* alternative and the count stayed at the threshold.
C8_Witness ==
    \E c \in Calls :
        /\ InFlight(c) /\ calls[c].provider = "searchapi"
        /\ calls[c].reset = "none"
        /\ googleFailCount = MAX_GOOGLE_FAILURES
        /\ now - lastGoogleFailure = GOOGLE_FAILURE_RESET_TIME

\* C9: selectSearchProvider called with googleFailCount > 0 more than the
\* reset time after the last failure leaves the count at 0 by its cooldown
\* step (the threshold block does not run); called no more than the reset
\* time after, its cooldown step does nothing, and the count changes only
\* by the reset of the threshold block.
C9_CooldownRecovery ==
    [][\A c \in Calls :
          (Starts(c) /\ googleFailCount > 0) =>
              IF now - lastGoogleFailure > GOOGLE_FAILURE_RESET_TIME
              THEN /\ googleFailCount' = 0
                   /\ calls'[c].reset = "cooldown"
                   /\ calls'[c].provider =
                         IF env = {} THEN "google" ELSE HighestPriority(env)
              ELSE /\ calls'[c].reset # "cooldown"
                   /\ \/ googleFailCount' = googleFailCount
                      \/ /\ googleFailCount >= MAX_GOOGLE_FAILURES
                         /\ env = {}
                         /\ calls'[c].reset = "threshold"
                         /\ googleFailCount' = 0]_vars

\* One millisecond more than the reset time after the last failure, the
\* call's cooldown step reset the count.
C9_Witness ==
    \E c \in Calls :
        /\ InFlight(c) /\ calls[c].reset = "cooldown"
        /\ googleFailCount = 0
        /\ now - lastGoogleFailure = GOOGLE_FAILURE_RESET_TIME + 1

\* C10: a brave or duckduckgo adapter that has received three 429/503
\* answers has waited 1000, 2000 and 4000 ms in that order; it has then
\* issued its fourth request and no more, and when that request succeeds the
\* list built from the response is what is returned.
C10_ThreeBackoffsThenSuccess ==
    \A c \in Calls :
        (calls[c].adapter \in {"brave", "duckduckgo"} /\ calls[c].throttled = 3) =>
            /\ calls[c].delays = <<1000, 2000, 4000>>
            /\ calls[c].pc \in {"http", "settled", "done"} =>
                  calls[c].attempts = 4
            /\ (calls[c].pc = "done" /\ calls[c].outcome.kind = "ok") =>
                  calls[c].ret = calls[c].outcome.items /\ ~calls[c].failed

\* Three 429/503 answers, then a response with one result: four requests,
\* three waits, and the result returned.
C10_Witness ==
    \E c \in Calls :
        /\ calls[c].pc = "done" /\ calls[c].adapter = "brave"
        /\ calls[c].throttled = 3 /\ calls[c].attempts = 4
        /\ calls[c].delays = <<1000, 2000, 4000>>
        /\ calls[c].outcome.kind = "ok"
        /\ calls[c].ret = Items("web", 1)

\* C11 (as claimed): the list returned by a search call that was served by
\* the brave or the duckduckgo adapter has at most num_results entries,
\* however many entries the backend's response has.
C11_LengthCapped ==
    \A c \in Calls :
        (calls[c].pc = "done" /\ calls[c].provider # "direct"
            /\ calls[c].adapter \in {"brave", "duckduckgo"}) =>
                Len(calls[c].ret) <= calls[c].num

\* A call of an adapter made directly has returned a list.
DirectDone(c, a) ==
    /\ calls[c].pc = "done" /\ calls[c].provider = "direct"
    /\ calls[c].adapter = a /\ calls[c].outcome.kind = "ok"

\* The entries a duckduckgo response offers, in the order abstract, Results,
\* RelatedTopics: the abstract when it has both URL and text, every result,
\* and the related topics that are not categories and have a FirstURL.
Offered(data) ==
    LET abstract == IF data.AbstractURL /\ data.AbstractText
                    THEN <<SearchResult("abstract", 0)>> ELSE <<>>
        topics == data.RelatedTopics
        kept == SelectSeq([j \in 1 .. Len(topics) |-> j],
                          LAMBDA j : topics[j] = "plain")
    IN  abstract \o [i \in 1 .. data.Results |-> SearchResult("result", i)]
                 \o [k \in 1 .. Len(kept) |-> SearchResult("topic", kept[k])]

SectionRank(src) ==
    CASE src = "abstract" -> 1 [] src = "result" -> 2 [] OTHER -> 3

\* C12: the list duckduckgoSearch returns for a response and num_results is
\* the first num_results entries of the abstract (when URL and text are both
\* there), then the Results in order, then the RelatedTopics in order without
\* the categories and the topics with no FirstURL; so the abstract comes
\* before results, results before topics, and no category topic appears.
C12_MergeOrder ==
    \A c \in Calls :
        DirectDone(c, "duckduckgo") =>
            LET offered == Offered(calls[c].data)
                ret == calls[c].ret
            IN  /\ ret = SubSeq(offered, 1, Min(calls[c].num, Len(offered)))
                /\ \A i, j \in 1 .. Len(ret) :
                      i < j => SectionRank(ret[i].src) <= SectionRank(ret[j].src)
                /\ \A i \in 1 .. Len(ret) :
                      ret[i].src = "topic" =>
                          calls[c].data.RelatedTopics[ret[i].idx] = "plain"

\* An abstract, one result, a category topic and a plain topic, merged for
\* num_results = 3: the category is left out and the plain topic comes last.
C12_Witness ==
    \E c \in Calls :
        /\ DirectDone(c, "duckduckgo") /\ calls[c].num = 3
        /\ calls[c].data = [AbstractURL |-> TRUE, AbstractText |-> TRUE,
                            Results |-> 1,
                            RelatedTopics |-> <<"category", "plain">>]
        /\ calls[c].ret = <<SearchResult("abstract", 0),
                            SearchResult("result", 1),
                            SearchResult("topic", 2)>>

\* C13 (as claimed): the provider named in the error log of a search call
\* is the provider whose adapter raised the error in that call, for calls
\* that interleave and for a fallback alternative invoked after the primary.
C13_ErrorLogNamesAdapter ==
    \A c \in Calls :
        (calls[c].pc = "done" /\ calls[c].failed) =>
            calls[c].errlog = calls[c].adapter

\* C14: braveSearch called while its key is not configured rejects in its
\* first segment with the configuration error: it has issued no request,
\* waited for no delay and not entered its retry loop.
C14_MissingKeyFailsAtOnce ==
    [][\A c \in Calls :
          (Starts(c) /\ calls'[c].adapter = "brave" /\ "brave" \notin env) =>
              /\ calls'[c].pc = "done"
              /\ calls'[c].outcome = Rejected(BraveKeyError)
              /\ calls'[c].attempts = 0
              /\ calls'[c].delays = <<>>
              /\ calls'[c].throttled = 0
              /\ calls'[c].data = NoData]_vars

\* braveSearch was called with the key cleared and rejected at once.
C14_Witness ==
    \E c \in Calls :
        /\ calls[c].pc = "done" /\ calls[c].adapter = "brave"
        /\ "brave" \notin env
        /\ calls[c].outcome = Rejected(BraveKeyError)
        /\ calls[c].attempts = 0 /\ calls[c].delays = <<>>

\* In this step the request call c awaits is answered.
Answered(c) == calls[c].pc = "http" /\ calls'[c] # calls[c]

\* ... with status 429 or 503.
Throttled(c) == Answered(c) /\ calls'[c].throttled = calls[c].throttled + 1

\* C15: an attempt answered with 429/503 goes to the backoff wait exactly
\* when fewer than 3 waits have been made, and fails the invocation when it
\* is the fourth attempt; an attempt that fails in any other way (another
\* status, or no response at all) fails the invocation in that step, with no
\* wait, whatever the attempt; no invocation makes more than 4 attempts or
\* 3 waits.
C15_RetryTransitions ==
    [][\A c \in Calls :
          /\ Answered(c) =>
                /\ calls'[c].pc \in {"backoff", "settled", "done"}
                /\ calls'[c].pc = "backoff" <=>
                      (Throttled(c) /\ Len(calls[c].delays) < 3)
                /\ calls'[c].pc = "backoff" =>
                      Len(calls'[c].delays) = Len(calls[c].delays) + 1
                /\ (Throttled(c) /\ calls[c].attempts = 4) =>
                      /\ calls'[c].pc \in {"settled", "done"}
                      /\ calls'[c].outcome.kind = "err"
                /\ (~Throttled(c) /\ calls'[c].outcome.kind = "err") =>
                      /\ calls'[c].pc \in {"settled", "done"}
                      /\ calls'[c].delays = calls[c].delays
                      /\ calls'[c].attempts = calls[c].attempts
          /\ calls'[c].attempts <= 4
          /\ Len(calls'[c].delays) <= 3]_vars

\* After two 429/503 answers the third request of duckduckgoSearch got no
\* response at all: the invocation failed there, with two waits made.
C15_Witness ==
    \E c \in Calls :
        /\ calls[c].pc = "done" /\ calls[c].adapter = "duckduckgo"
        /\ calls[c].outcome =
              Rejected(AdapterError("duckduckgo", AxiosMessage(0)))
        /\ calls[c].throttled = 2 /\ calls[c].attempts = 3
        /\ calls[c].delays = <<1000, 2000>>

\* C16: with every request answered and every timer fired, a search call
\* in flight (awaiting an adapter's request or wait) eventually returns, its
\* adapter having succeeded or failed; and a call that has returned makes no
\* further attempt or wait: its slot changes only when a new call starts.
C16_Terminates ==
    /\ \A c \in Calls : InFlight(c) ~> (calls[c].pc = "done")
    /\ [][\A c \in Calls :
            (calls[c].pc = "done" /\ calls'[c] # calls[c]) =>
                /\ calls'[c].attempts <= 1
                /\ calls'[c].delays = <<>>
                /\ calls'[c].throttled = 0]_vars

\* The fallback adapter of a search call used up its retries, and the call
\* returned.
C16_Witness ==
    \E c \in Calls :
        /\ calls[c].pc = "done" /\ calls[c].provider = "google"
        /\ calls[c].adapter = "brave" /\ calls[c].altsTried = 1
        /\ calls[c].throttled = 4 /\ calls[c].attempts = 4
        /\ Len(calls[c].delays) = 3

\* C17: whatever the interleaving of the calls in flight, googleFailCount is
\* a natural number; a step in which the primary of a call rejects with a
\* rate-limit message leaves it one higher than that step found it and sets
\* lastGoogleFailure to the time of the step; and a step of a call whose
\* pending adapter is an alternative (resolved, or invoked as the fallback)
\* leaves both as they are.
C17_TrackerUnderConcurrency ==
    [][/\ googleFailCount' \in Nat
       /\ \A c \in Calls :
             /\ PrimaryRateLimited(c) =>
                   /\ googleFailCount' = googleFailCount + 1
                   /\ lastGoogleFailure' = now
             /\ (InFlight(c) /\ calls[c].adapter # "google"
                     /\ calls'[c] # calls[c]) =>
                   /\ googleFailCount' = googleFailCount
                   /\ lastGoogleFailure' = lastGoogleFailure]_vars

\* The primary of one call was rate limited for the second time, at a time
\* after the start, while another call is awaiting the primary: both
\* failures are counted and the time of the later one recorded.
C17_Witness ==
    \E c, d \in Calls :
        /\ calls[c].pc = "done" /\ calls[c].adapter = "google"
        /\ IsRateLimitMessage(calls[c].outcome.msg)
        /\ calls[d].pc = "ext" /\ calls[d].adapter = "google"
        /\ calls[d].altsTried = 0
        /\ googleFailCount = 2
        /\ lastGoogleFailure = now /\ now > 0

\* C18: search invokes the primary only when no alternative is configured;
\* hence, when the configuration is at the primary's rate-limit failure what
\* it was when the call started, the failure is counted and the call
\* returns an empty list in that step, no alternative adapter invoked.
C18_NoFallbackUnderStableConfig ==
    [][\A c \in Calls :
          /\ (Starts(c) /\ calls'[c].adapter = "google") => env = {}
          /\ (PrimaryRateLimited(c) /\ env = {}) =>
                /\ googleFailCount' = googleFailCount + 1
                /\ calls'[c].pc = "done"
                /\ calls'[c].ret = <<>>
                /\ calls'[c].altsTried = 0
                /\ calls'[c].adapter = "google"]_vars

\* With nothing configured the primary was rate limited three times in a
\* row: each failure was counted and the last call returned an empty list
\* with no alternative tried.
C18_Witness ==
    \E c \in Calls :
        /\ calls[c].pc = "done" /\ calls[c].adapter = "google"
        /\ IsRateLimitMessage(calls[c].outcome.msg)
        /\ calls[c].altsTried = 0 /\ calls[c].ret = <<>>
        /\ env = {} /\ googleFailCount = 3

\* C19 (as claimed): googleFailCount is between 0 and MAX_GOOGLE_FAILURES in
\* every reachable state, also when calls are in flight together.
C19_BoundedByThreshold ==
    googleFailCount \in 0 .. MAX_GOOGLE_FAILURES

\* C19 (amended): googleFailCount is between 0 and MAX_GOOGLE_FAILURES - 1
\* plus the number of calls that can be in flight together: a call resolves
\* to the primary only with the count below the threshold, and each call in
\* flight adds at most one failure to it.
C19_BoundedByCallsInFlight ==
    googleFailCount \in 0 .. (MAX_GOOGLE_FAILURES - 1 + NumCalls)

\* Every call resolved to the primary with the count at 4, and every one of
\* them was then rate limited.
C19_Witness ==
    /\ googleFailCount = MAX_GOOGLE_FAILURES - 1 + NumCalls
    /\ \A c \in Calls :
          /\ calls[c].pc = "done" /\ calls[c].adapter = "google"
          /\ IsRateLimitMessage(calls[c].outcome.msg)

\* In this step the primary of call c fulfils and the call returns.
PrimarySucceeds(c) ==
    /\ Resumes(c) /\ calls[c].adapter = "google"
    /\ calls'[c].pc = "done" /\ calls'[c].outcome.kind = "ok"

\* C20: a primary search that succeeds leaves googleFailCount and
\* lastGoogleFailure as they are; the two change only in a step where a
\* primary is rate limited (count one higher, time recorded) or where
\* selectSearchProvider resets the count (cooldown, or threshold with no
\* alternative; the time is kept).
C20_TrackerFrame ==
    [][/\ \A c \in Calls :
             PrimarySucceeds(c) =>
                 /\ googleFailCount' = googleFailCount
                 /\ lastGoogleFailure' = lastGoogleFailure
       /\ (googleFailCount' # googleFailCount
               \/ lastGoogleFailure' # lastGoogleFailure) =>
             \E c \in Calls :
                 \/ /\ PrimaryRateLimited(c)
                    /\ googleFailCount' = googleFailCount + 1
                    /\ lastGoogleFailure' = now
                 \/ /\ Starts(c)
                    /\ calls'[c].reset \in {"cooldown", "threshold"}
                    /\ googleFailCount' = 0
                    /\ lastGoogleFailure' = lastGoogleFailure]_vars

\* After four rate-limit failures a primary search succeeded, and the count
\* is still one failure short of the threshold.
C20_Witness ==
    \E c \in Calls :
        /\ calls[c].pc = "done" /\ calls[c].adapter = "google"
        /\ calls[c].outcome = Resolved(Items("google", 1))
        /\ calls[c].ret = Items("google", 1)
        /\ googleFailCount = MAX_GOOGLE_FAILURES - 1
        /\ now = lastGoogleFailure

====
